---- MODULE Spec2Model ----
(***************************************************************************)
(* MatrixQi_News (src/app.py): the RSS ingest endpoint store_news, the     *)
(* read endpoint fetch_news, and the two normalizers they share.           *)
(*                                                                         *)
(* A Python str is a sequence of one-character strings, so that strip,     *)
(* lower, split, urlparse, parse_qs and urlencode are computed character   *)
(* by character as the code computes them.                                 *)
(***************************************************************************)
EXTENDS Integers, Sequences, FiniteSets, TLC

(***************************************************************************)
(* str helpers                                                             *)
(***************************************************************************)
Range(s) == {s[i] : i \in 1..Len(s)}

\* Let(v, F) is F(v): it names a value that the rest of a computation uses
\* several times (a local variable of the code)
Let(v, F(_)) == F(v)

\* str.strip() / str.split() whitespace
IsSpace(c) == c \in {" ", "\t", "\n", "\r"}

\* s[i:] and s[:i] for 0 <= i (Python slices with a non-negative index)
From(s, i) == SubSeq(s, i + 1, Len(s))
Upto(s, i) == SubSeq(s, 1, IF i < Len(s) THEN i ELSE Len(s))

\* str.find(c) + 1: the 1-based position of the first c in s, 0 when absent
Find(s, c) ==
    IF \E i \in 1..Len(s) : s[i] = c
    THEN CHOOSE i \in 1..Len(s) : s[i] = c /\ \A j \in 1..(i - 1) : s[j] # c
    ELSE 0

\* the 1-based position of the first character of s that is in set cs, 0 when absent
FindAny(s, cs) ==
    IF \E i \in 1..Len(s) : s[i] \in cs
    THEN CHOOSE i \in 1..Len(s) : s[i] \in cs /\ \A j \in 1..(i - 1) : s[j] \notin cs
    ELSE 0

StartsWith(s, p) == Len(s) >= Len(p) /\ SubSeq(s, 1, Len(p)) = p

\* str.strip()
Strip(s) ==
    IF \A i \in 1..Len(s) : IsSpace(s[i]) THEN <<>>
    ELSE LET a == CHOOSE i \in 1..Len(s) : ~IsSpace(s[i]) /\ \A j \in 1..(i - 1) : IsSpace(s[j])
             b == CHOOSE i \in 1..Len(s) : ~IsSpace(s[i]) /\ \A j \in (i + 1)..Len(s) : IsSpace(s[j])
         IN  SubSeq(s, a, b)

\* str.rstrip('/') and re.sub(r'/+$', '', s)
RStripSlash(s) ==
    IF \A i \in 1..Len(s) : s[i] = "/" THEN <<>>
    ELSE LET b == CHOOSE i \in 1..Len(s) : s[i] # "/" /\ \A j \in (i + 1)..Len(s) : s[j] = "/"
         IN  SubSeq(s, 1, b)

UpperCase == <<"A","B","C","D","E","F","G","H","I","J","K","L","M",
               "N","O","P","Q","R","S","T","U","V","W","X","Y","Z">>
LowerCase == <<"a","b","c","d","e","f","g","h","i","j","k","l","m",
               "n","o","p","q","r","s","t","u","v","w","x","y","z">>
Digits == {"0","1","2","3","4","5","6","7","8","9"}

LowerChar(c) ==
    IF c \in Range(UpperCase) THEN LowerCase[CHOOSE i \in 1..26 : UpperCase[i] = c] ELSE c

\* str.lower()
Lower(s) == [i \in 1..Len(s) |-> LowerChar(s[i])]

\* str.split(c): the pieces of s between the occurrences of c (always at least one piece)
RECURSIVE SplitOn(_, _)
SplitOn(s, c) ==
    Let(Find(s, c), LAMBDA i :
        IF i = 0 THEN <<s>> ELSE <<SubSeq(s, 1, i - 1)>> \o SplitOn(From(s, i), c))

\* str.split(): the maximal runs of non-whitespace characters of s
RECURSIVE Words(_)
Words(s) ==
    Let(Strip(s), LAMBDA t :
    Let(FindAny(t, {" ", "\t", "\n", "\r"}), LAMBDA i :
        IF t = <<>> THEN <<>>
        ELSE IF i = 0 THEN <<t>>
        ELSE <<SubSeq(t, 1, i - 1)>> \o Words(From(t, i))))

\* sep.join(parts)
RECURSIVE Join(_, _)
Join(parts, sep) ==
    IF parts = <<>> THEN <<>>
    ELSE IF Len(parts) = 1 THEN parts[1]
    ELSE parts[1] \o sep \o Join(Tail(parts), sep)

(***************************************************************************)
(* urllib.parse, as normalize_link uses it (src/app.py:40-55)              *)
(***************************************************************************)
SchemeChars == Range(UpperCase) \cup Range(LowerCase) \cup Digits \cup {"+", "-", "."}

\* urlsplit, after the scheme: '//netloc', then '#fragment', then '?query'
SplitRest(scheme, url2) ==
    Let(StartsWith(url2, <<"/", "/">>), LAMBDA hasNetloc :
    Let(FindAny(From(url2, 2), {"/", "?", "#"}), LAMBDA d :
    Let(IF ~hasNetloc THEN url2
        ELSE IF d = 0 THEN <<>> ELSE From(url2, d + 1), LAMBDA url3 :
    Let(Find(url3, "#"), LAMBDA h :
    Let(IF h = 0 THEN url3 ELSE SubSeq(url3, 1, h - 1), LAMBDA url4 :
    Let(Find(url4, "?"), LAMBDA q :
        [scheme |-> scheme,
         netloc |-> IF ~hasNetloc THEN <<>>
                    ELSE IF d = 0 THEN From(url2, 2) ELSE SubSeq(url2, 3, d + 1),
         path   |-> IF q = 0 THEN url4 ELSE SubSeq(url4, 1, q - 1),
         query  |-> IF q = 0 THEN <<>> ELSE From(url4, q)]))))))

\* urlparse's _splitparams: ';params' of the last path segment are split off
SplitParams(path0) ==
    Let(SplitOn(path0, "/"), LAMBDA segs :
    Let(Find(segs[Len(segs)], ";"), LAMBDA p :
        IF p > 0 THEN SubSeq(path0, 1, Len(path0) - Len(segs[Len(segs)]) + p - 1)
        ELSE path0))

UsesParams == {<<>>, <<"h","t","t","p">>, <<"h","t","t","p","s">>, <<"f","t","p">>}

\* urlparse(url): scheme, netloc, path, query (the fragment and the params are
\* not used by normalize_link)
urlparse(url0) ==
    Let(SelectSeq(url0, LAMBDA c : c \notin {"\t", "\n", "\r"}), LAMBDA url1 :
    Let(Find(url1, ":"), LAMBDA i :
    Let(/\ i > 1
        /\ url1[1] \in Range(UpperCase) \cup Range(LowerCase)
        /\ \A j \in 1..(i - 1) : url1[j] \in SchemeChars, LAMBDA isScheme :
    Let(IF isScheme THEN SplitRest(Lower(SubSeq(url1, 1, i - 1)), From(url1, i))
        ELSE SplitRest(<<>>, url1), LAMBDA r :
        IF r.scheme \in UsesParams THEN [r EXCEPT !.path = SplitParams(@)] ELSE r))))

\* ParseResult.hostname: netloc without userinfo and port, lowercased; <<>> for None
hostname(netloc) ==
    Let({i \in 1..Len(netloc) : netloc[i] = "@"}, LAMBDA ats :
    Let(From(netloc, IF ats = {} THEN 0 ELSE CHOOSE i \in ats : \A j \in ats : j <= i),
        LAMBDA hostinfo :
    Let(Find(hostinfo, ":"), LAMBDA c :
        Lower(IF c = 0 THEN hostinfo ELSE SubSeq(hostinfo, 1, c - 1)))))

\* urlsplit raises ValueError when the netloc has one bracket without the other
Raises(url) ==
    Let(urlparse(url).netloc, LAMBDA n : ("[" \in Range(n)) # ("]" \in Range(n)))

\* one 'name=value' piece of the query: split('=', 1), a missing value is blank
NameValue(piece) ==
    Let(Find(piece, "="), LAMBDA e :
        IF e = 0 THEN [name |-> piece, value |-> <<>>]
        ELSE [name |-> SubSeq(piece, 1, e - 1), value |-> From(piece, e)])

\* parse_qsl(query, keep_blank_values=True): the non-empty pieces between '&'
\* (the character set of the model has no '%' and no '+': unquote changes nothing)
parse_qsl(query) ==
    Let(SelectSeq(SplitOn(query, "&"), LAMBDA x : x # <<>>), LAMBDA pieces :
        [i \in 1..Len(pieces) |-> NameValue(pieces[i])])

\* the names of the pairs in the order they first occur
FirstNames(pairs) ==
    SelectSeq([i \in 1..Len(pairs) |->
                 IF \E j \in 1..(i - 1) : pairs[j].name = pairs[i].name
                 THEN <<>> ELSE <<pairs[i].name>>],
              LAMBDA x : x # <<>>)

ValuesOf(pairs, name) ==
    Let(SelectSeq(pairs, LAMBDA nv : nv.name = name), LAMBDA mine :
        [j \in 1..Len(mine) |-> mine[j].value])

\* parse_qs: a dict name -> list of values, in the order the names first occur
parse_qs(query) ==
    Let(parse_qsl(query), LAMBDA pairs :
    Let(FirstNames(pairs), LAMBDA firsts :
        [k \in 1..Len(firsts) |->
           [key |-> firsts[k][1], vals |-> ValuesOf(pairs, firsts[k][1])]]))

\* quote_plus of one character: unreserved characters stay, ' ' becomes '+',
\* the reserved characters a query piece of the model can hold are percent-encoded
QuoteChar(c) ==
    IF c \in Range(UpperCase) \cup Range(LowerCase) \cup Digits \cup {"_", ".", "-", "~"}
    THEN <<c>>
    ELSE CASE c = " " -> <<"+">>
           [] c = "/" -> <<"%", "2", "F">>
           [] c = ":" -> <<"%", "3", "A">>
           [] c = "=" -> <<"%", "3", "D">>
           [] c = "?" -> <<"%", "3", "F">>
           [] c = "@" -> <<"%", "4", "0">>
           [] c = ";" -> <<"%", "3", "B">>
           [] c = "[" -> <<"%", "5", "B">>
           [] c = "]" -> <<"%", "5", "D">>

RECURSIVE quote_plus(_)
quote_plus(s) == IF s = <<>> THEN <<>> ELSE QuoteChar(Head(s)) \o quote_plus(Tail(s))

\* urlencode(params, doseq=True)
urlencode(params) ==
    LET one(p) == Join([j \in 1..Len(p.vals) |->
                          quote_plus(p.key) \o <<"=">> \o quote_plus(p.vals[j])], <<"&">>)
    IN  Join([k \in 1..Len(params) |-> one(params[k])], <<"&">>)

\* src/app.py:46-49: a tracking parameter
IsTracking(key) ==
    Let(Lower(key), LAMBDA key_lower :
        \/ StartsWith(key_lower, <<"u","t","m","_">>)
        \/ key_lower \in {<<"f","b","c","l","i","d">>, <<"g","c","l","i","d">>})

\* src/app.py:57-69: hostname + path + ('?' + query), trailing slashes off, lowercased
BuildNorm(parsed, new_query) ==
    Let(hostname(parsed.netloc) \o parsed.path
          \o (IF new_query # <<>> THEN <<"?">> \o new_query ELSE <<>>), LAMBDA norm :
        Lower(IF Len(norm) > 1 /\ norm[Len(norm)] = "/" THEN RStripSlash(norm) ELSE norm))

\* src/app.py:38-73
NormalizeUrl(url_str) ==
    IF Raises(url_str) THEN Lower(RStripSlash(url_str))
    ELSE Let(urlparse(url_str), LAMBDA parsed :
             BuildNorm(parsed,
                       urlencode(SelectSeq(parse_qs(parsed.query),
                                           LAMBDA p : ~IsTracking(p.key)))))

\* src/app.py:27-73
normalize_link(raw) ==
    IF raw = <<>> THEN <<>>
    ELSE Let(Strip(raw), LAMBDA stripped :
             NormalizeUrl(IF StartsWith(stripped, <<"/", "/">>)
                          THEN <<"h","t","t","p","s",":">> \o stripped ELSE stripped))

\* src/app.py:76-81
normalize_title(raw) ==
    IF raw = <<>> THEN <<>>
    ELSE Lower(Strip(Join(Words(raw), <<" ">>)))


(***************************************************************************)
(* The feed and the store.  A feed entry is what feedparser hands to       *)
(* store_news: title, link, published, updated (absent = empty).  The      *)
(* description is copied to the row unchanged and decides nothing; it is   *)
(* left out.  Element text (title, published, updated) arrives stripped    *)
(* from feedparser; a link may carry surrounding whitespace.               *)
(***************************************************************************)
\* "https://a.co/x?utm_source=f"
LinkA_utm == <<"h","t","t","p","s",":","/","/","a",".","c","o","/","x","?","u","t","m","_","s","o","u","r","c","e","=","f">>
\* "http://a.co/x/"
LinkA_slash == <<"h","t","t","p",":","/","/","a",".","c","o","/","x","/">>
\* "http://A.co/x"
LinkA_stored == <<"h","t","t","p",":","/","/","A",".","c","o","/","x">>
\* "https://example.com/a/?utm_source=x&b=2"
LinkExample == <<"h","t","t","p","s",":","/","/","e","x","a","m","p","l","e",".","c","o","m","/","a","/","?","u","t","m","_","s","o","u","r","c","e","=","x","&","b","=","2">>
\* " //a.co/y?gclid=3 "
LinkY_padded == <<" ","/","/","a",".","c","o","/","y","?","g","c","l","i","d","=","3"," ">>
\* "2024-01-02"
Date1 == <<"2","0","2","4","-","0","1","-","0","2">>
\* "2024-01-01"
Date2 == <<"2","0","2","4","-","0","1","-","0","1">>
\* "Alpha"
TitleA == <<"A","l","p","h","a">>
\* "Beta"
TitleB == <<"B","e","t","a">>
\* "Top  News"
TitleT == <<"T","o","p"," "," ","N","e","w","s">>
\* "top news"
TitleT2 == <<"t","o","p"," ","n","e","w","s">>
\* "||"
Sep == <<"|","|">>

Entry(t, l, p, u) == [title |-> t, link |-> l, published |-> p, updated |-> u]

EntA_utm   == Entry(TitleA, LinkA_utm, Date1, <<>>)
EntA_slash == Entry(TitleB, LinkA_slash, Date1, <<>>)
EntExample == Entry(TitleB, LinkExample, <<>>, Date1)
EntY       == Entry(TitleA, LinkY_padded, Date2, <<>>)
EntT       == Entry(TitleT, <<>>, Date1, <<>>)
EntT2      == Entry(TitleT2, <<>>, <<>>, Date1)
EntNoDate  == Entry(TitleA, <<>>, <<>>, <<>>)
EntNothing == Entry(<<>>, <<>>, Date1, <<>>)

\* the feed documents the upstream server can answer with
Feeds == { <<>>,
           <<EntNothing>>,
           <<EntA_utm, EntA_slash, EntY>>,
           <<EntExample, EntY, EntA_slash>>,
           <<EntT, EntT2, EntNoDate>> }

Row(i, t, l, dt) == [id |-> i, title |-> t, link |-> l, date |-> dt]

\* the contents the news table can have when the service starts
InitStores == { <<>>,
                <<Row(1, TitleT2, <<>>, Date1), Row(2, TitleB, LinkA_stored, Date2)>> }


(***************************************************************************)
(* store_news (src/app.py:84-289)                                          *)
(***************************************************************************)
\* the request handlers that can run store_news at the same time
Workers == {"w1", "w2"}

\* the store_news calls of a behaviour
MaxRequests == 2

VARIABLES store,        \* the news table: rows in insertion order, id = position
          runs,         \* per worker: the locals of its store_news call
          requests,     \* store_news calls started so far
          overlapped,   \* history: some call started while another was in progress
          selectFailed, \* history: some call's load of the existing rows failed
          ingested,     \* history: the feeds some call has stored (or found stored)
          read          \* the last fetch_news call: its arguments and its response

ingestVars == <<store, runs, requests, overlapped, selectFailed, ingested>>
vars == <<store, runs, requests, overlapped, selectFailed, ingested, read>>

\* no fetch_news call yet
NoRead == [pc |-> "idle"]

\* src/app.py:162
PubDate(it) == IF it.published # <<>> THEN it.published ELSE it.updated

\* src/app.py:164-177: a surviving entry in DB shape plus its dedupe keys
NormalizedItem(it) ==
    LET pub_date   == PubDate(it)
        norm_title == normalize_title(it.title)
    IN  [title |-> Strip(it.title),
         link  |-> Strip(it.link),
         date  |-> Strip(pub_date),
         norm_link |-> normalize_link(it.link),
         title_date_key |-> IF pub_date # <<>>
                            THEN norm_title \o Sep \o Strip(pub_date) ELSE <<>>]

\* src/app.py:122-177: entries with neither title nor link are dropped
Normalize(items) ==
    LET kept == SelectSeq(items, LAMBDA it : it.title # <<>> \/ it.link # <<>>)
    IN  [i \in 1..Len(kept) |-> NormalizedItem(kept[i])]

\* Normalize on the feeds of the model (a table, so that it is computed once)
NormalizedFeed == [feed \in Feeds |-> Normalize(feed)]

\* src/app.py:190
page_size == 1000

\* .select('link, title, date').range(a, b): the rows at offsets a..b of the table
RangeSelect(table, a, b) ==
    LET rows == SubSeq(table, a + 1, IF b + 1 < Len(table) THEN b + 1 ELSE Len(table))
    IN  [i \in 1..Len(rows) |->
           [link |-> rows[i].link, title |-> rows[i].title, date |-> rows[i].date]]

\* src/app.py:189-201: page after page until a page is empty or short
RECURSIVE SelectAll(_, _)
SelectAll(table, offset) ==
    LET batch == RangeSelect(table, offset, offset + page_size - 1)
    IN  IF batch = <<>> THEN <<>>
        ELSE IF Len(batch) < page_size THEN batch
        ELSE batch \o SelectAll(table, offset + page_size)

\* ExistingLinks comparing the stored links as they are, not normalized
ExistingLinks_Raw(rows) ==
    {rows[i].link : i \in 1..Len(rows)} \ {<<>>}

\* src/app.py:207-217
ExistingLinks(rows) ==
    {normalize_link(rows[i].link) : i \in 1..Len(rows)} \ {<<>>}

\* ExistingTitleDates with the stored title as it is, not normalized
ExistingTitleDates_RawTitle(rows) ==
    {rows[i].title \o Sep \o rows[i].date :
        i \in {j \in 1..Len(rows) : rows[j].title # <<>> \/ rows[j].date # <<>>}}

\* src/app.py:208-219
ExistingTitleDates(rows) ==
    {normalize_title(rows[i].title) \o Sep \o rows[i].date :
        i \in {j \in 1..Len(rows) : normalize_title(rows[j].title) # <<>> \/ rows[j].date # <<>>}}

\* src/app.py:225-229
NoSkips == [duplicateLink |-> 0, duplicateTitleDate |-> 0, noLinkNoTitle |-> 0]

NewRow(it) == [title |-> it.title, link |-> it.link, date |-> it.date]

\* DecideItem without line 242: an accepted link is not remembered for the rest
\* of the batch
DecideItem_NoRemember(it, acc) ==
    IF it.norm_link # <<>>
    THEN IF it.norm_link \notin acc.links
         THEN [acc EXCEPT !.to_insert = Append(@, NewRow(it))]
         ELSE [acc EXCEPT !.skipped.duplicateLink = @ + 1]
    ELSE IF it.title_date_key # <<>> /\ it.title_date_key \notin acc.keys
    THEN [acc EXCEPT !.to_insert = Append(@, NewRow(it)),
                     !.keys = @ \cup {it.title_date_key}]
    ELSE [acc EXCEPT !.skipped.duplicateTitleDate = @ + 1]

\* DecideItem counting a title+date skip only when the entry has a key
DecideItem_KeyedOnly(it, acc) ==
    IF it.norm_link # <<>>
    THEN IF it.norm_link \notin acc.links
         THEN [acc EXCEPT !.to_insert = Append(@, NewRow(it)),
                          !.links = @ \cup {it.norm_link}]
         ELSE [acc EXCEPT !.skipped.duplicateLink = @ + 1]
    ELSE IF it.title_date_key # <<>> /\ it.title_date_key \notin acc.keys
    THEN [acc EXCEPT !.to_insert = Append(@, NewRow(it)),
                     !.keys = @ \cup {it.title_date_key}]
    ELSE IF it.title_date_key # <<>>
    THEN [acc EXCEPT !.skipped.duplicateTitleDate = @ + 1]
    ELSE acc

\* src/app.py:232-256: the body of the loop over the normalized items
DecideItem(it, acc) ==
    IF it.norm_link # <<>>
    THEN IF it.norm_link \notin acc.links
         THEN [acc EXCEPT !.to_insert = Append(@, NewRow(it)),
                          !.links = @ \cup {it.norm_link}]
         ELSE [acc EXCEPT !.skipped.duplicateLink = @ + 1]
    ELSE IF it.title_date_key # <<>> /\ it.title_date_key \notin acc.keys
    THEN [acc EXCEPT !.to_insert = Append(@, NewRow(it)),
                     !.keys = @ \cup {it.title_date_key}]
    ELSE IF it.norm_link = <<>>
    THEN [acc EXCEPT !.skipped.duplicateTitleDate = @ + 1]
    ELSE acc

\* src/app.py:231
RECURSIVE DecideAll(_, _)
DecideAll(todo, acc) ==
    IF todo = <<>> THEN acc ELSE DecideAll(Tail(todo), DecideItem(Head(todo), acc))

\* src/app.py:206-257
Decide(normalized, existing_rows) ==
    DecideAll(normalized, [links |-> ExistingLinks(existing_rows),
                           keys  |-> ExistingTitleDates(existing_rows),
                           to_insert |-> <<>>,
                           skipped |-> NoSkips])

\* an insert that leaves out the rows whose normalized link the table already
\* has (a unique index with conflicts ignored)
Inserted_Unique(table, to_insert) ==
    Let(SelectSeq(to_insert,
                  LAMBDA r : normalize_link(r.link) = <<>>
                             \/ \A i \in 1..Len(table) :
                                   normalize_link(table[i].link) # normalize_link(r.link)),
        LAMBDA kept :
        [i \in 1..Len(kept) |->
           Row(Len(table) + i, kept[i].title, kept[i].link, kept[i].date)])

\* .insert(to_insert): the rows get the next ids and are appended
Inserted(table, to_insert) ==
    [i \in 1..Len(to_insert) |->
       Row(Len(table) + i, to_insert[i].title, to_insert[i].link, to_insert[i].date)]

\* the responses, src/app.py:93-95, 115-119 and 180-184, 261-266, 274-277, 279-285, 289
RespFeedError == [status |-> 502, body |-> [error |-> "Failed to fetch feed"]]
RespException == [status |-> 500, body |-> [error |-> "exception"]]
RespNoItems ==
    [status |-> 200,
     body |-> [message |-> "No items parsed from feed", fetched |-> 0, inserted |-> 0]]
RespNoNew(normalized, skipped) ==
    [status |-> 200,
     body |-> [message |-> "No new items to insert", fetchedCount |-> Len(normalized),
               skipped |-> skipped, insertedCount |-> 0]]
RespInsertError ==
    [status |-> 500, body |-> [error |-> "Failed to insert into DB", detail |-> "insert_err"]]
RespStored(normalized, inserted, skipped) ==
    [status |-> 200,
     body |-> [message |-> "Fetched feed and stored new items",
               fetchedCount |-> Len(normalized), insertedCount |-> Len(inserted),
               inserted |-> inserted, skipped |-> skipped]]

NoResp == [status |-> 0, body |-> <<>>]

IdleRun ==
    [pc |-> "idle", items |-> <<>>, normalized |-> <<>>, existing_rows |-> <<>>,
     to_insert |-> <<>>, skipped |-> NoSkips, resp |-> NoResp,
     select_ok |-> FALSE, insert_calls |-> 0, repeat |-> FALSE]

Active(w) == runs[w].pc \in {"select", "insert"}

IngestInit ==
    /\ store \in InitStores
    /\ runs = [w \in Workers |-> IdleRun]
    /\ requests = 0
    /\ overlapped = FALSE
    /\ selectFailed = FALSE
    /\ ingested = {}
    /\ read = NoRead

\* src/app.py:87-184: a request arrives at a free handler (one that has sent its
\* last response); the feed is fetched and parsed, its entries normalized
Fetch(w) ==
    /\ runs[w].pc \in {"idle", "done"}
    /\ requests < MaxRequests
    /\ requests' = requests + 1
    /\ \E feed \in Feeds :
         LET normalized == NormalizedFeed[feed]
         IN  IF Len(feed) = 0 \/ Len(normalized) = 0
             THEN /\ runs' = [runs EXCEPT ![w] = [IdleRun EXCEPT !.pc = "done", !.items = feed,
                                                                 !.resp = RespNoItems]]
                  /\ UNCHANGED overlapped
             ELSE /\ runs' = [runs EXCEPT ![w] = [IdleRun EXCEPT !.pc = "select", !.items = feed,
                                                                 !.normalized = normalized,
                                                                 !.repeat = feed \in ingested]]
                  /\ overlapped' = (overlapped \/ \E v \in Workers \ {w} : Active(v))
    /\ UNCHANGED <<store, selectFailed, ingested, read>>

\* src/app.py:92-95 and 287-289: the feed server answers with an error, or the
\* request raises (timeout, connection error)
FetchFail(w) ==
    /\ runs[w].pc \in {"idle", "done"}
    /\ requests < MaxRequests
    /\ requests' = requests + 1
    /\ \E r \in {RespFeedError, RespException} :
         runs' = [runs EXCEPT ![w] = [IdleRun EXCEPT !.pc = "done", !.resp = r]]
    /\ UNCHANGED <<store, overlapped, selectFailed, ingested, read>>

\* src/app.py:206-266, after the existing rows are loaded (or not)
AfterSelect(w, rows, ok) ==
    LET d == Decide(runs[w].normalized, rows)
        nothing == Len(d.to_insert) = 0
    IN  /\ runs' = [runs EXCEPT ![w] =
                      [@ EXCEPT !.existing_rows = rows, !.select_ok = ok,
                                !.to_insert = d.to_insert, !.skipped = d.skipped,
                                !.pc = IF nothing THEN "done" ELSE "insert",
                                !.resp = IF nothing
                                         THEN RespNoNew(runs[w].normalized, d.skipped)
                                         ELSE @]]
        /\ ingested' = IF nothing THEN ingested \cup {runs[w].items} ELSE ingested

\* src/app.py:186-201: the existing rows are loaded
SelectOk(w) ==
    /\ runs[w].pc = "select"
    /\ AfterSelect(w, SelectAll(store, 0), TRUE)
    /\ UNCHANGED <<store, requests, overlapped, selectFailed, read>>

\* src/app.py:202-204: the load raises and the run goes on with no existing rows
SelectFail(w) ==
    /\ runs[w].pc = "select"
    /\ AfterSelect(w, <<>>, FALSE)
    /\ selectFailed' = TRUE
    /\ UNCHANGED <<store, requests, overlapped, read>>

\* src/app.py:268-285: the accepted rows are written in one batch
InsertOk(w) ==
    /\ runs[w].pc = "insert"
    /\ LET inserted == Inserted(store, runs[w].to_insert)
       IN  /\ store' = store \o inserted
           /\ runs' = [runs EXCEPT ![w] =
                         [@ EXCEPT !.pc = "done", !.insert_calls = @ + 1,
                                   !.resp = RespStored(runs[w].normalized, inserted,
                                                       runs[w].skipped)]]
    /\ ingested' = ingested \cup {runs[w].items}
    /\ UNCHANGED <<requests, overlapped, selectFailed, read>>

\* src/app.py:272-277: the write raises, nothing is stored
InsertFail(w) ==
    /\ runs[w].pc = "insert"
    /\ runs' = [runs EXCEPT ![w] = [@ EXCEPT !.pc = "done", !.insert_calls = @ + 1,
                                             !.resp = RespInsertError]]
    /\ UNCHANGED <<store, requests, overlapped, selectFailed, ingested, read>>

Next ==
    \E w \in Workers :
        \/ Fetch(w)
        \/ FetchFail(w)
        \/ SelectOk(w)
        \/ SelectFail(w)
        \/ InsertOk(w)
        \/ InsertFail(w)

Spec == IngestInit /\ [][Next]_vars

(***************************************************************************)
(* fetch_news (src/app.py:292-414)                                         *)
(*                                                                         *)
(* A datetime is [wall, tzinfo]: wall is the wall-clock reading in minutes *)
(* since 2024-01-01 00:00, tzinfo is <<>> for a naive datetime and         *)
(* <<minutes east of UTC>> for an aware one.  An optional value (None or a *)
(* value) is a sequence of no or one element.  A 'YYYY-MM-DD' text is the  *)
(* day it names, counted from 2024-01-01 = 0.                              *)
(***************************************************************************)

\* the most rows a news table holds when fetch_news is called
MaxRows == 3

MinutesPerDay == 1440

\* pytz.timezone('Asia/Kolkata'): UTC+05:30, no daylight saving
tz == 330

datetime(wall, tzinfo) == [wall |-> wall, tzinfo |-> tzinfo]

\* What fetch_news can see of a stored date string: whether it is empty and
\* what each of the three parsers makes of it.
\*   published_parsed  feedparser's UTC time tuple for <pubDate>text</pubDate>,
\*                     <<>> when feedparser gives none
\*   fromisoformat     datetime.fromisoformat(text.replace('Z', '+00:00')),
\*                     <<>> when it raises
\*   dateutil          dateutil's parser.parse(text), <<>> when it raises
DateStr(text, feed, iso, util) ==
    [text |-> text, published_parsed |-> feed, fromisoformat |-> iso, dateutil |-> util]

\* "Tue, 02 Jan 2024 20:00:00 GMT": 01:30 on 3 January in Kolkata
DateRfcLate == DateStr("rfc822 02 Jan 20:00 GMT", <<2640>>, <<>>, <<>>)
\* "Tue, 02 Jan 2024 06:00:00 GMT": 11:30 on 2 January in Kolkata
DateRfcNoon == DateStr("rfc822 02 Jan 06:00 GMT", <<1800>>, <<>>, <<>>)
\* a text only fromisoformat reads, as naive 1 January 19:00: taken as UTC it
\* is 00:30 on 2 January in Kolkata
DateIsoNaive == DateStr("iso 01 Jan 19:00", <<>>, <<datetime(1140, <<>>)>>, <<>>)
\* a text only fromisoformat reads, as 1 January 22:00 at UTC-08:00: 11:30 on
\* 2 January in Kolkata
DateIsoAware == DateStr("iso 01 Jan 22:00-08:00", <<>>, <<datetime(1320, <<-480>>)>>, <<>>)
\* a text only dateutil reads, as naive 1 January 10:00: 15:30 on 1 January in
\* Kolkata
DateUtilNaive == DateStr("words 01 Jan 10:00", <<>>, <<>>, <<datetime(600, <<>>)>>)
\* a text none of the parsers reads
DateUnparsed == DateStr("soon", <<>>, <<>>, <<>>)
\* the empty string, which store_news writes for an entry without a date
DateEmpty == DateStr("", <<>>, <<>>, <<>>)

ReadDates == {DateRfcLate, DateRfcNoon, DateIsoNaive, DateIsoAware, DateUtilNaive,
              DateUnparsed, DateEmpty}

\* the tables fetch_news can find: up to MaxRows rows, id = position
ReadStores ==
    UNION {{[i \in 1..n |-> Row(i, TitleA, <<>>, dates[i])] : dates \in [1..n -> ReadDates]}
           : n \in 0..MaxRows}

\* datetime.now(tz): 2 January 12:00 and 3 January 00:10, Kolkata time
Nows == {datetime(2160, <<tz>>), datetime(2890, <<tz>>)}

\* the values a query parameter can have: absent (<<>>) or one text
ArgValues == {<<>>, << <<"0">> >>, << <<"1">> >>, << <<"2">> >>, << <<"-", "1">> >>,
              << <<"x">> >>}

DigitValue(c) == CHOOSE d \in 0..9 : <<"0","1","2","3","4","5","6","7","8","9">>[d + 1] = c

RECURSIVE DigitsValue(_)
DigitsValue(s) ==
    IF s = <<>> THEN 0 ELSE 10 * DigitsValue(SubSeq(s, 1, Len(s) - 1)) + DigitValue(s[Len(s)])

\* int(text) for a str: surrounding whitespace stripped, an optional sign, then
\* decimal digits; <<>> stands for the ValueError
int(text) ==
    Let(Strip(text), LAMBDA t :
    Let(IF t # <<>> /\ t[1] \in {"+", "-"} THEN Tail(t) ELSE t, LAMBDA body :
        IF body = <<>> \/ \E i \in 1..Len(body) : body[i] \notin Digits
        THEN <<>>
        ELSE IF t[1] = "-" THEN <<0 - DigitsValue(body)>> ELSE <<DigitsValue(body)>>))

\* int(request.args.get(name, 0)): an absent parameter is the int 0
IntArg(arg) == IF arg = <<>> THEN <<0>> ELSE int(arg[1])

\* result[i:] and result[:i] for any int i (a negative index counts from the end)
SliceFrom(s, i) ==
    IF i >= 0 THEN From(s, i) ELSE IF Len(s) + i > 0 THEN From(s, Len(s) + i) ELSE s
SliceTo(s, i) ==
    IF i >= 0 THEN Upto(s, i) ELSE IF Len(s) + i > 0 THEN Upto(s, Len(s) + i) ELSE <<>>

FETCH_ROWS == 1000

\* src/app.py:304-309: .order('id', desc=True).limit(FETCH_ROWS)
FetchRecent(table) ==
    [i \in 1..(IF Len(table) < FETCH_ROWS THEN Len(table) ELSE FETCH_ROWS) |->
       table[Len(table) + 1 - i]]

\* to_kolkata_date_str keeping the day of the datetime's UTC reading
to_kolkata_date_str_Utc(dt) ==
    (IF dt.tzinfo = <<>> THEN dt.wall ELSE dt.wall - dt.tzinfo[1]) \div MinutesPerDay

\* src/app.py:320-327: a naive datetime is taken as UTC; the day in Kolkata
to_kolkata_date_str(dt) ==
    ((IF dt.tzinfo = <<>> THEN dt.wall ELSE dt.wall - dt.tzinfo[1]) + tz) \div MinutesPerDay

\* src/app.py:332: now.replace(hour=0, minute=0, ...) - timedelta(days=1)
Yesterday(now) ==
    datetime((now.wall \div MinutesPerDay) * MinutesPerDay - MinutesPerDay, now.tzinfo)

\* src/app.py:353-354 and 363-364: pytz.utc.localize for a naive result
Localize(parsed) == IF parsed.tzinfo = <<>> THEN datetime(parsed.wall, <<0>>) ELSE parsed

\* src/app.py:336-369: the first parser that succeeds wins; <<>> is None
parse_row_date(date_str) ==
    IF date_str.text = "" THEN <<>>
    ELSE IF date_str.published_parsed # <<>>
         THEN <<datetime(date_str.published_parsed[1], <<0>>)>>
    ELSE IF date_str.fromisoformat # <<>> THEN <<Localize(date_str.fromisoformat[1])>>
    ELSE IF date_str.dateutil # <<>> THEN <<Localize(date_str.dateutil[1])>>
    ELSE <<>>

\* src/app.py:372-376: each row with its day in Kolkata, <<>> when unparsed
Annotate(rows) ==
    [i \in 1..Len(rows) |->
       Let(parse_row_date(rows[i].date), LAMBDA parsed :
           [row |-> rows[i],
            kolkata_date |-> IF parsed # <<>> THEN <<to_kolkata_date_str(parsed[1])>>
                             ELSE <<>>])]

\* src/app.py:379-385: today's rows, or yesterday's when there are none
DaySelect(annotated, today_str, yesterday_str) ==
    Let(SelectSeq(annotated, LAMBDA r : r.kolkata_date = <<today_str>>), LAMBDA todays :
        IF todays = <<>>
        THEN [todays |-> SelectSeq(annotated, LAMBDA r : r.kolkata_date = <<yesterday_str>>),
              used_day |-> "yesterday"]
        ELSE [todays |-> todays, used_day |-> "today"])

\* Paginate cutting to the limit first and skipping the offset after
Paginate_LimitFirst(todays, offset, limit) ==
    Let(IF limit # <<>> THEN SliceTo(todays, limit[1]) ELSE todays, LAMBDA result :
        IF offset # 0 THEN SliceFrom(result, offset) ELSE result)

\* src/app.py:388-392: the offset, then the limit
Paginate(todays, offset, limit) ==
    Let(IF offset # 0 THEN SliceFrom(todays, offset) ELSE todays, LAMBDA result :
        IF limit # <<>> THEN SliceTo(result, limit[1]) ELSE result)

\* src/app.py:395-403: the rows without their kolkata_date
NewsList(result) == [i \in 1..Len(result) |-> result[i].row]

\* the responses, src/app.py:312-315, 405-410, 414
RespSelectError ==
    [status |-> 500, body |-> [error |-> "Failed to fetch news from DB", detail |-> "select_err"]]
RespNews(used_day, today_str, yesterday_str, news_list) ==
    [status |-> 200,
     body |-> [requested_day |-> used_day,
               day_date |-> IF used_day = "today" THEN today_str ELSE yesterday_str,
               count |-> Len(news_list), news |-> news_list]]
RespGetNewsError == [status |-> 500, body |-> [error |-> "get news error"]]

\* src/app.py:317-410: the response once the rows are fetched
NewsOf(rows, limit, offset, now) ==
    Let(to_kolkata_date_str(now), LAMBDA today_str :
    Let(to_kolkata_date_str(Yesterday(now)), LAMBDA yesterday_str :
    Let(DaySelect(Annotate(rows), today_str, yesterday_str), LAMBDA sel :
        RespNews(sel.used_day, today_str, yesterday_str,
                 NewsList(Paginate(sel.todays, offset, limit))))))

\* src/app.py:295-414: limit and offset are read first (a ValueError goes to the
\* outer handler), then the rows are fetched (db_ok: the select succeeds)
fetch_news(table, args, now, db_ok) ==
    IF IntArg(args.limit) = <<>> \/ IntArg(args.offset) = <<>> THEN RespGetNewsError
    ELSE IF ~db_ok THEN RespSelectError
    ELSE NewsOf(FetchRecent(table),
                IF IntArg(args.limit)[1] = 0 THEN <<>> ELSE IntArg(args.limit),
                IntArg(args.offset)[1], now)

ReadInit ==
    /\ store \in ReadStores
    /\ runs = [w \in Workers |-> IdleRun]
    /\ requests = 0
    /\ overlapped = FALSE
    /\ selectFailed = FALSE
    /\ ingested = {}
    /\ read = NoRead

\* the record of a call: its query parameters, the clock and the response
Answered(limit, offset, now, db_ok) ==
    [pc |-> "done", args |-> [limit |-> limit, offset |-> offset], now |-> now,
     db_ok |-> db_ok,
     resp |-> fetch_news(store, [limit |-> limit, offset |-> offset], now, db_ok)]

\* GET /api/fetchnews, answered from the rows of the table; one call per
\* behaviour (a call changes nothing that a later call reads)
FetchNews ==
    /\ read.pc = "idle"
    /\ \E limit \in ArgValues, offset \in ArgValues, now \in Nows :
          read' = Answered(limit, offset, now, TRUE)
    /\ UNCHANGED ingestVars

\* GET /api/fetchnews when the select raises: lines 310-315
FetchNewsSelectFail ==
    /\ read.pc = "idle"
    /\ \E limit \in ArgValues, offset \in ArgValues, now \in Nows :
          read' = Answered(limit, offset, now, FALSE)
    /\ UNCHANGED ingestVars

ReadNext == FetchNews \/ FetchNewsSelectFail

SpecRead == ReadInit /\ [][ReadNext]_vars



(***************************************************************************)
(* Properties of store_news                                                *)
(***************************************************************************)
\* the run of w has passed the decision loop (src/app.py:231-257)
Decided(w) == runs[w].pc = "insert" \/ (runs[w].pc = "done" /\ Len(runs[w].normalized) > 0)

\* the feed entries that survive the 'title or link' filter, as fetched
Survivors(w) == SelectSeq(runs[w].items, LAMBDA it : it.title # <<>> \/ it.link # <<>>)

\* the normalized links of the surviving entries, as the run computed them
\* (src/app.py:164)
FetchedLinks(w) == [i \in 1..Len(runs[w].normalized) |-> runs[w].normalized[i].norm_link]

\* the normalized links of the rows of a list, in order
LinksOf(rows) == [i \in 1..Len(rows) |-> normalize_link(rows[i].link)]

\* the positions of l in a list of normalized links
Positions(links, l) == {i \in 1..Len(links) : links[i] = l}

\* no two rows of the table share a non-empty normalized link
NoDuplicateLinks(table) ==
    Let(LinksOf(table), LAMBDA links :
        \A i, j \in 1..Len(links) : (i # j /\ links[i] # <<>>) => links[i] # links[j])

\* C1: in every run, whatever was loaded, the rows accepted for insert never hold
\* two rows with the same non-empty normalized link; the accepted row of a link
\* is the one of the first feed entry with that normalized link, and every later
\* entry with it was skipped.
AtMostOneInsertPerLink ==
    \A w \in Workers :
        Decided(w) =>
            Let(LinksOf(runs[w].to_insert), LAMBDA accepted :
            Let(FetchedLinks(w), LAMBDA fetched :
                /\ \A i, j \in 1..Len(accepted) :
                      (i # j /\ accepted[i] # <<>>) => accepted[i] # accepted[j]
                /\ \A i \in 1..Len(accepted) :
                      Let(Positions(fetched, accepted[i]), LAMBDA same :
                          accepted[i] # <<>> =>
                            Let(CHOOSE k \in same : \A m \in same : k <= m, LAMBDA first :
                                /\ runs[w].to_insert[i].link = Strip(Survivors(w)[first].link)
                                /\ runs[w].to_insert[i].title
                                     = Strip(Survivors(w)[first].title)))))

\* C1 witness: a decided run whose feed held two entries with different links
\* and the same non-empty normalized link, one of them accepted
WitnessSameLinkTwice ==
    \E w \in Workers :
        /\ Decided(w)
        /\ Let(FetchedLinks(w), LAMBDA fetched :
               \E i, j \in 1..Len(fetched) :
                   /\ i < j
                   /\ Survivors(w)[i].link # Survivors(w)[j].link
                   /\ fetched[i] # <<>>
                   /\ fetched[i] = fetched[j]
                   /\ \E k \in 1..Len(runs[w].to_insert) :
                        runs[w].to_insert[k].link = Strip(Survivors(w)[i].link))

\* the normalized links of the rows the run loaded
StoredLinks(w) == Range(LinksOf(runs[w].existing_rows))

\* the surviving entries all have a non-empty normalized link, no two the same
DistinctLinks(w) ==
    Let(FetchedLinks(w), LAMBDA fetched :
        \A i, j \in 1..Len(fetched) :
            /\ fetched[i] # <<>>
            /\ i # j => fetched[i] # fetched[j])

\* the surviving entries whose normalized link no loaded row has, as rows
NewEntries(w) ==
    Let(StoredLinks(w), LAMBDA stored :
    Let(FetchedLinks(w), LAMBDA fetched :
    Let({i \in 1..Len(fetched) : fetched[i] \notin stored}, LAMBDA fresh :
    Let(SelectSeq(Survivors(w), LAMBDA it : \E i \in fresh : Survivors(w)[i] = it),
        LAMBDA new :
        [i \in 1..Len(new) |->
           [title |-> Strip(new[i].title), link |-> Strip(new[i].link),
            date |-> Strip(PubDate(new[i]))]]))))

\* the run read the existing rows and its write, if it made one, succeeded
ReadAndWriteSucceeded(w) ==
    runs[w].pc = "done" /\ runs[w].select_ok /\ runs[w].resp # RespInsertError

\* C2: a finished run whose load of the existing rows and write succeeded, with
\* n surviving entries of pairwise distinct non-empty normalized links, k of
\* them stored already: the response reports fetchedCount = n,
\* insertedCount = n - k and skipped.duplicateLink = k, and exactly the n - k
\* new entries are in the store, at the ids the response names.
CountsOfDistinctLinks ==
    \A w \in Workers :
        (ReadAndWriteSucceeded(w) /\ DistinctLinks(w)) =>
            Let(Len(Survivors(w)), LAMBDA n :
            Let(NewEntries(w), LAMBDA new :
            Let(runs[w].resp.body, LAMBDA body :
                /\ runs[w].resp.status = 200
                /\ body.fetchedCount = n
                /\ body.insertedCount = Len(new)
                /\ body.skipped.duplicateLink = n - Len(new)
                /\ IF Len(new) = 0 THEN runs[w].insert_calls = 0
                   ELSE /\ runs[w].insert_calls = 1
                        /\ Len(body.inserted) = Len(new)
                        /\ \A i \in 1..Len(new) :
                             /\ body.inserted[i].id \in 1..Len(store)
                             /\ store[body.inserted[i].id] = body.inserted[i]
                             /\ body.inserted[i].title = new[i].title
                             /\ body.inserted[i].link = new[i].link
                             /\ body.inserted[i].date = new[i].date
                             /\ i > 1 => body.inserted[i].id = body.inserted[i - 1].id + 1)))

\* C2 witness: such a run with a stored entry and a new one
WitnessNewAndStored ==
    \E w \in Workers :
        /\ ReadAndWriteSucceeded(w)
        /\ DistinctLinks(w)
        /\ Let(Len(NewEntries(w)), LAMBDA new :
               /\ new > 0
               /\ new < Len(Survivors(w))
               /\ runs[w].resp.body.insertedCount = new)

\* the run got a feed and accepted nothing for insert
AcceptedNothing(w) ==
    /\ runs[w].pc = "done"
    /\ runs[w].resp \notin {RespFeedError, RespException}
    /\ runs[w].to_insert = <<>>

\* C3: a run that accepts no item for insert succeeds and attempts no store
\* write; its response has insertedCount = 0, and fetchedCount = 0 when the
\* feed had no usable entry.
NothingAcceptedNothingWritten ==
    \A w \in Workers :
        AcceptedNothing(w) =>
            /\ runs[w].resp.status = 200
            /\ runs[w].insert_calls = 0
            /\ "insertedCount" \in DOMAIN runs[w].resp.body
            /\ runs[w].resp.body.insertedCount = 0
            /\ Len(runs[w].normalized) = 0 =>
                 /\ "fetchedCount" \in DOMAIN runs[w].resp.body
                 /\ runs[w].resp.body.fetchedCount = 0

\* what does hold for C3: no write is attempted and the run succeeds; the counts
\* of a feed without usable entries are under the keys 'fetched' and 'inserted'
NothingAcceptedNoWrite ==
    \A w \in Workers :
        AcceptedNothing(w) =>
            /\ runs[w].resp.status = 200
            /\ runs[w].insert_calls = 0
            /\ IF Len(runs[w].normalized) = 0
               THEN runs[w].resp.body.fetched = 0 /\ runs[w].resp.body.inserted = 0
               ELSE runs[w].resp.body.insertedCount = 0

\* "example.com/a?b=2"
NormExample == <<"e","x","a","m","p","l","e",".","c","o","m","/","a","?","b","=","2">>

\* C7: the entry with the link https://example.com/a/?utm_source=x&b=2 gets the
\* normalized link example.com/a?b=2: tracking parameters removed and the
\* path's trailing slash removed although the parameter b remains.
ExampleLinkNormalized ==
    \A w \in Workers :
        \A i \in 1..Len(runs[w].normalized) :
            runs[w].normalized[i].link = LinkExample
                => runs[w].normalized[i].norm_link = NormExample

\* the run is over and its write succeeded
Stored(w) ==
    /\ runs[w].pc = "done" /\ runs[w].insert_calls = 1 /\ runs[w].resp.status = 200
    /\ Len(runs[w].resp.body.inserted) > 0

\* v and w both loaded the existing rows before either wrote: neither load
\* holds a row the other run wrote
LoadedBeforeEitherWrote(v, w) ==
    /\ Stored(v) /\ Stored(w)
    /\ runs[v].select_ok /\ runs[w].select_ok
    /\ Len(runs[v].existing_rows) < runs[w].resp.body.inserted[1].id
    /\ Len(runs[w].existing_rows) < runs[v].resp.body.inserted[1].id

\* C8: nothing protects two overlapping runs against each other: when both
\* loaded the existing rows before either wrote and both accepted an entry of
\* the same normalized link, both rows are written and the store holds two
\* rows with that link.
OverlappingRunsBothInsert ==
    \A v, w \in Workers :
        (v # w /\ LoadedBeforeEitherWrote(v, w)) =>
            Let(LinksOf(runs[v].to_insert), LAMBDA mine :
            Let(LinksOf(runs[w].to_insert), LAMBDA theirs :
            Let(LinksOf(store), LAMBDA stored :
                \A i \in 1..Len(mine) :
                    (mine[i] # <<>> /\ mine[i] \in Range(theirs))
                        => Cardinality(Positions(stored, mine[i])) >= 2)))

\* C8 witness: two such runs have inserted the same new feed entry
WitnessRaceDuplicates ==
    \E v, w \in Workers :
        /\ v # w
        /\ LoadedBeforeEitherWrote(v, w)
        /\ \E i \in 1..Len(runs[v].to_insert) :
             /\ runs[v].to_insert[i].link # <<>>
             /\ runs[v].to_insert[i] \in Range(runs[w].to_insert)
        /\ ~NoDuplicateLinks(store)

\* C9: as long as no two runs overlapped and every load of the existing rows
\* succeeded, the store holds no two rows with the same non-empty normalized
\* link, and a run on a feed that an earlier run has stored accepts nothing.
SequentialRunsKeepLinksUnique ==
    (~overlapped /\ ~selectFailed) =>
        /\ NoDuplicateLinks(store)
        /\ \A w \in Workers : runs[w].repeat => runs[w].to_insert = <<>>

\* C9 witness: a second run on a feed whose entries an earlier run wrote
WitnessSecondRun ==
    /\ ~overlapped /\ ~selectFailed
    /\ \E w \in Workers :
         /\ runs[w].repeat /\ runs[w].pc = "done" /\ runs[w].select_ok
         /\ Len(runs[w].existing_rows) > 2
         /\ runs[w].resp.body.insertedCount = 0
         /\ runs[w].resp.body.skipped.duplicateLink + runs[w].resp.body.skipped.duplicateTitleDate
              = Len(runs[w].normalized)

\* the key of entry i of the run is taken when the loop reaches it: a loaded
\* row or an earlier entry without link has it
KeyPresent(w, i) ==
    \/ runs[w].normalized[i].title_date_key \in ExistingTitleDates(runs[w].existing_rows)
    \/ \E j \in 1..(i - 1) :
         /\ runs[w].normalized[j].norm_link = <<>>
         /\ runs[w].normalized[j].title_date_key = runs[w].normalized[i].title_date_key

LinkPresent(w, i) ==
    \/ \E k \in 1..Len(runs[w].existing_rows) :
         normalize_link(runs[w].existing_rows[k].link) = runs[w].normalized[i].norm_link
    \/ \E j \in 1..(i - 1) : runs[w].normalized[j].norm_link = runs[w].normalized[i].norm_link

NoLink(w) == {i \in 1..Len(runs[w].normalized) : runs[w].normalized[i].norm_link = <<>>}

\* C10 as stated: duplicateTitleDate counts exactly the entries without
\* normalized link whose title+date key is already present; an entry without
\* link and without key is in no skip counter.
TitleDateCountsOnlyDuplicates ==
    \A w \in Workers :
        Decided(w) =>
            runs[w].skipped.duplicateTitleDate =
                Cardinality({i \in NoLink(w) :
                               /\ runs[w].normalized[i].title_date_key # <<>>
                               /\ KeyPresent(w, i)})

\* C10 amended: duplicateTitleDate counts every entry without normalized link
\* that is not accepted: its title+date key is already present or it has no
\* key (no date). duplicateLink counts exactly the entries whose non-empty
\* normalized link is already present, noLinkNoTitle stays 0, and every
\* surviving entry is either accepted or in one of the two counters.
TitleDateCountsEveryUnlinkedSkip ==
    \A w \in Workers :
        Decided(w) =>
            /\ runs[w].skipped.duplicateTitleDate =
                 Cardinality({i \in NoLink(w) :
                                \/ runs[w].normalized[i].title_date_key = <<>>
                                \/ KeyPresent(w, i)})
            /\ runs[w].skipped.duplicateLink =
                 Cardinality({i \in 1..Len(runs[w].normalized) \ NoLink(w) : LinkPresent(w, i)})
            /\ runs[w].skipped.noLinkNoTitle = 0
            /\ Len(runs[w].to_insert) + runs[w].skipped.duplicateLink
                 + runs[w].skipped.duplicateTitleDate = Len(runs[w].normalized)

\* C10 witness: a decided run that counted an entry with neither link nor key
WitnessNoKeyCounted ==
    \E w \in Workers :
        /\ Decided(w)
        /\ \E i \in NoLink(w) : runs[w].normalized[i].title_date_key = <<>>
        /\ \E i \in NoLink(w) : runs[w].normalized[i].title_date_key # <<>> /\ KeyPresent(w, i)
        /\ runs[w].skipped.duplicateTitleDate >= 2

(***************************************************************************)
(* Properties of fetch_news                                                *)
(***************************************************************************)

\* the call was answered with a news list
Answered200 == read.pc = "done" /\ read.resp.status = 200

\* the instant a stored date string denotes, in minutes UTC: the reading of the
\* first parser that reads it, a reading without an offset being UTC; <<>> when
\* the string is empty or no parser reads it
UtcInstant(d) ==
    IF d.text = "" THEN <<>>
    ELSE IF d.published_parsed # <<>> THEN d.published_parsed
    ELSE Let(IF d.fromisoformat # <<>> THEN d.fromisoformat ELSE d.dateutil, LAMBDA p :
             IF p = <<>> THEN <<>>
             ELSE IF p[1].tzinfo = <<>> THEN <<p[1].wall>>
             ELSE <<p[1].wall - p[1].tzinfo[1]>>)

\* the calendar day in Kolkata (UTC+05:30) a stored date string falls on
LocalDay(d) ==
    IF UtcInstant(d) = <<>> THEN <<>> ELSE <<(UtcInstant(d)[1] + 330) \div (24 * 60)>>

\* the calendar day in Kolkata at the time of the call (now is Kolkata time)
Today == read.now.wall \div (24 * 60)

HasToday == \E i \in 1..Len(store) : LocalDay(store[i].date) = <<Today>>

\* the day fetch_news has to use: today when a row is dated today, or yesterday
UsedDay == IF HasToday THEN Today ELSE Today - 1

\* C4: every answer with a news list names the day used (today when some row
\* of the table is dated today in Kolkata, otherwise yesterday) in
\* requested_day and day_date, and every row it returns is a row of the table
\* whose date parses to that one Kolkata day; so a row whose date does not
\* parse is never returned.
OnlyRowsOfTheUsedDay ==
    Answered200 =>
        /\ read.resp.body.requested_day = (IF HasToday THEN "today" ELSE "yesterday")
        /\ read.resp.body.day_date = UsedDay
        /\ \A i \in 1..Len(read.resp.body.news) :
              /\ read.resp.body.news[i] \in Range(store)
              /\ LocalDay(read.resp.body.news[i].date) = <<UsedDay>>

\* C4 witness: no row is dated today, the answer falls back to yesterday and
\* returns a row, while the table also holds a row whose date does not parse
\* and a row whose UTC day differs from its Kolkata day.
WitnessFallbackToYesterday ==
    /\ Answered200
    /\ ~HasToday
    /\ read.resp.body.requested_day = "yesterday"
    /\ Len(read.resp.body.news) > 0
    /\ \E i \in 1..Len(store) : store[i].date = DateUnparsed
    /\ \E i \in 1..Len(store) :
          /\ LocalDay(store[i].date) = <<UsedDay>>
          /\ UtcInstant(store[i].date)[1] \div (24 * 60) # UsedDay

\* limit or offset is absent or the decimal text of a non-negative integer
NonNegative(arg) ==
    arg = <<>> \/ (arg[1] # <<>> /\ \A i \in 1..Len(arg[1]) : arg[1][i] \in Digits)

\* the number a non-negative limit or offset stands for (absent: 0)
ValueOf(arg) == IF arg = <<>> THEN 0 ELSE DigitsValue(arg[1])

\* the rows of the used day, newest id first
DaySelected ==
    SelectSeq([i \in 1..Len(store) |-> store[Len(store) + 1 - i]],
              LAMBDA r : LocalDay(r.date) = <<UsedDay>>)

\* C5: for a non-negative integer offset and limit, the news list is the rows
\* of the used day in descending id with the first `offset` rows skipped and
\* then at most `limit` rows kept (limit 0 or absent: all of them), in the
\* same order, and count is the length of the list.
OffsetThenLimit ==
    (Answered200 /\ NonNegative(read.args.limit) /\ NonNegative(read.args.offset)) =>
        Let(ValueOf(read.args.offset), LAMBDA off :
        Let(ValueOf(read.args.limit), LAMBDA lim :
            /\ read.resp.body.news =
                  SubSeq(DaySelected, off + 1,
                         IF lim = 0 \/ off + lim > Len(DaySelected)
                         THEN Len(DaySelected) ELSE off + lim)
            /\ read.resp.body.count = Len(read.resp.body.news)))

\* C5 witness: an offset and a limit that both cut: a row is skipped, a row is
\* returned and a row after it is left out.
WitnessBothCut ==
    /\ Answered200
    /\ NonNegative(read.args.limit) /\ NonNegative(read.args.offset)
    /\ ValueOf(read.args.offset) > 0
    /\ ValueOf(read.args.limit) > 0
    /\ Len(DaySelected) > ValueOf(read.args.offset) + ValueOf(read.args.limit)
    /\ read.resp.body.count = ValueOf(read.args.limit)

\* C6: whenever a provided limit or offset is not a non-negative integer (a
\* non-integer text or a negative integer), the call fails as a bad request: a
\* client-error status and no news list.
InvalidArgIsBadRequest ==
    (read.pc = "done" /\ ~(NonNegative(read.args.limit) /\ NonNegative(read.args.offset))) =>
        /\ read.resp.status \in 400..499
        /\ "news" \notin DOMAIN read.resp.body

\* a non-integer limit or offset ends in the outer handler's answer
NonIntegerArgIs500 ==
    (read.pc = "done" /\ (int(<<"x">>) = <<>>)
       /\ (read.args.limit = << <<"x">> >> \/ read.args.offset = << <<"x">> >>)) =>
        read.resp = RespGetNewsError

\* a negative offset is used to slice: the answer is a news list holding the
\* last rows of the day
NegativeOffsetSlices ==
    (Answered200 /\ read.args.offset = << <<"-", "1">> >> /\ read.args.limit = <<>>) =>
        read.resp.body.news = (IF DaySelected = <<>> THEN <<>>
                               ELSE <<DaySelected[Len(DaySelected)]>>)


====
